---- MODULE Spec2Model ----
(***************************************************************************)
(* Model of src/main.py: the income-statement extraction endpoint.         *)
(*                                                                         *)
(* A Python str is modelled as a sequence of one-character strings, so     *)
(* that `in`, lower(), strip(), split(), replace(), join() and the regular *)
(* expressions are computed character by character, as the code does.     *)
(***************************************************************************)
EXTENDS Integers, Sequences, FiniteSets

VARIABLES
    pc,        \* position of the request handler / of the function call
    file,      \* the uploaded bytes, as pdfplumber reads them
    text,      \* extract_text_from_pdf's result
    lines,     \* get_income_statement_lines' result
    data,      \* the list of row dicts
    df,        \* the DataFrame's rows
    response,  \* what the endpoint answers
    line,      \* argument of normalize_label / extract_numbers
    label,     \* normalize_label's result
    numbers    \* extract_numbers' result

vars == <<pc, file, text, lines, data, df, response, line, label, numbers>>

(***************************************************************************)
(* Python str primitives                                                   *)
(***************************************************************************)
UpperCase == <<"A","B","C","D","E","F","G","H","I","J","K","L","M",
               "N","O","P","Q","R","S","T","U","V","W","X","Y","Z">>
LowerCase == <<"a","b","c","d","e","f","g","h","i","j","k","l","m",
               "n","o","p","q","r","s","t","u","v","w","x","y","z">>
Digits == {"0","1","2","3","4","5","6","7","8","9"}
Whitespace == {" ", "\t", "\n", "\r", "\f"}

\* str.lower() on one character
LowerChar(c) ==
    IF \E i \in 1..Len(UpperCase) : UpperCase[i] = c
    THEN LowerCase[CHOOSE i \in 1..Len(UpperCase) : UpperCase[i] = c]
    ELSE c

\* str.lower()
Lower(s) == [i \in 1..Len(s) |-> LowerChar(s[i])]

\* `sub in s`
Contains(s, sub) ==
    \E i \in 0..(Len(s) - Len(sub)) : SubSeq(s, i + 1, i + Len(sub)) = sub

\* str.strip(): drop leading and trailing whitespace
Strip(s) ==
    LET keep == {i \in 1..Len(s) : s[i] \notin Whitespace}
    IN  IF keep = {} THEN <<>>
        ELSE SubSeq(s, CHOOSE i \in keep : \A j \in keep : i <= j,
                       CHOOSE i \in keep : \A j \in keep : i >= j)

\* str.split(sep) for a one-character separator: always at least one piece
RECURSIVE Split(_, _)
Split(s, sep) ==
    LET at == {i \in 1..Len(s) : s[i] = sep}
    IN  IF at = {} THEN <<s>>
        ELSE LET i == CHOOSE i \in at : \A j \in at : i <= j
             IN  <<SubSeq(s, 1, i - 1)>> \o Split(SubSeq(s, i + 1, Len(s)), sep)

\* str.replace(c, "") for a one-character c
RECURSIVE Remove(_, _)
Remove(s, c) ==
    IF s = <<>> THEN <<>>
    ELSE (IF Head(s) = c THEN <<>> ELSE <<Head(s)>>) \o Remove(Tail(s), c)

\* sep.join(parts)
RECURSIVE Join(_, _)
Join(sep, parts) ==
    IF parts = <<>> THEN <<>>
    ELSE IF Len(parts) = 1 THEN parts[1]
    ELSE parts[1] \o sep \o Join(sep, Tail(parts))

\* re.search(r"\d", s)
HasDigit(s) == \E i \in 1..Len(s) : s[i] \in Digits

(***************************************************************************)
(* normalize_label                                                         *)
(***************************************************************************)
TOTAL_NET_SALES == <<"t","o","t","a","l"," ","n","e","t"," ","s","a","l","e","s">>
NET_SALES == <<"n","e","t"," ","s","a","l","e","s">>
COST_OF_SALES == <<"c","o","s","t"," ","o","f"," ","s","a","l","e","s">>
GROSS_MARGIN == <<"g","r","o","s","s"," ","m","a","r","g","i","n">>
GROSS_PROFIT == <<"g","r","o","s","s"," ","p","r","o","f","i","t">>
OPERATING_INCOME == <<"o","p","e","r","a","t","i","n","g"," ","i","n","c","o","m","e">>
OPERATING_EXPENSES == <<"o","p","e","r","a","t","i","n","g"," ","e","x","p","e","n","s","e","s">>
NET_INCOME == <<"n","e","t"," ","i","n","c","o","m","e">>
NET_PROFIT == <<"n","e","t"," ","p","r","o","f","i","t">>
NET_EARNINGS == <<"n","e","t"," ","e","a","r","n","i","n","g","s">>
EARNINGS_PER_SHARE == <<"e","a","r","n","i","n","g","s"," ","p","e","r"," ","s","h","a","r","e">>
EPS == <<"e","p","s">>

\* a plausible slip: the Net Income test placed before the Revenue test
normalize_label_NetIncomeFirst(ln) ==
    LET lower == Lower(ln)
    IN  IF Contains(lower, NET_INCOME) \/ Contains(lower, NET_PROFIT)
              \/ Contains(lower, NET_EARNINGS)
        THEN "Net Income"
        ELSE IF Contains(lower, TOTAL_NET_SALES) \/ Contains(lower, NET_SALES)
        THEN "Revenue"
        ELSE IF Contains(lower, COST_OF_SALES)
        THEN "Cost of Revenue"
        ELSE IF Contains(lower, GROSS_MARGIN) \/ Contains(lower, GROSS_PROFIT)
        THEN "Gross Profit"
        ELSE IF Contains(lower, OPERATING_INCOME)
        THEN "Operating Income"
        ELSE IF Contains(lower, OPERATING_EXPENSES)
        THEN "Operating Expenses"
        ELSE IF Contains(lower, EARNINGS_PER_SHARE) \/ Contains(lower, EPS)
        THEN "EPS"
        ELSE "UNKNOWN"

normalize_label(ln) ==
    LET lower == Lower(ln)
    IN  IF Contains(lower, TOTAL_NET_SALES) \/ Contains(lower, NET_SALES)
        THEN "Revenue"
        ELSE IF Contains(lower, COST_OF_SALES)
        THEN "Cost of Revenue"
        ELSE IF Contains(lower, GROSS_MARGIN) \/ Contains(lower, GROSS_PROFIT)
        THEN "Gross Profit"
        ELSE IF Contains(lower, OPERATING_INCOME)
        THEN "Operating Income"
        ELSE IF Contains(lower, OPERATING_EXPENSES)
        THEN "Operating Expenses"
        ELSE IF Contains(lower, NET_INCOME) \/ Contains(lower, NET_PROFIT)
                  \/ Contains(lower, NET_EARNINGS)
        THEN "Net Income"
        ELSE IF Contains(lower, EARNINGS_PER_SHARE) \/ Contains(lower, EPS)
        THEN "EPS"
        ELSE "UNKNOWN"

(***************************************************************************)
(* Inputs: lines built from at most MaxWords words                         *)
(***************************************************************************)
RECURSIVE Concat(_)
Concat(ss) == IF ss = <<>> THEN <<>> ELSE Head(ss) \o Concat(Tail(ss))

WordSeqs(words, n) == UNION {[1..k -> words] : k \in 0..n}

MaxWords == 3

LabelWords ==
    { <<"N","e","t"," ","S","a","l","e","s">>,
      <<"n","e","t">>,
      <<" ">>,
      <<"s","a","l","e","s">>,
      <<"n","e","t"," ","i","n","c","o","m","e">>,
      <<"c","o","s","t"," ","o","f"," ","s","a","l","e","s">>,
      <<"g","r","o","s","s"," ","m","a","r","g","i","n">>,
      <<"G","r","o","s","s"," ","P","r","o","f","i","t">>,
      <<"o","p","e","r","a","t","i","n","g"," ","i","n","c","o","m","e">>,
      <<"O","p","e","r","a","t","i","n","g"," ","E","x","p","e","n","s","e","s">>,
      <<"n","e","t"," ","p","r","o","f","i","t">>,
      <<"n","e","t"," ","e","a","r","n","i","n","g","s">>,
      <<"e","a","r","n","i","n","g","s"," ","p","e","r"," ","s","h","a","r","e">>,
      <<"E","P","S">>,
      <<"x">> }

LabelLines == {Concat(ws) : ws \in WordSeqs(LabelWords, MaxWords)}

NoFile == [valid |-> TRUE, pages |-> <<>>]

\* nothing answered yet
NoResponse == [status |-> 0, raised |-> "none"]

\* the variables a function-call specification does not use
Idle ==
    /\ file = NoFile /\ text = <<>> /\ lines = <<>> /\ data = <<>>
    /\ df = <<>> /\ response = NoResponse

(***************************************************************************)
(* extract_numbers                                                         *)
(***************************************************************************)
NumberTail == Digits \cup {",", "."}

CharAt(s, i) == IF i \in 1..Len(s) THEN s[i] ELSE "<end>"

\* Where a match of \(?-?\d starting at p has its digit, trying the optional
\* parenthesis and the optional minus greedily first; 0 when nothing matches.
DigitAt(s, p) ==
    IF CharAt(s, p) = "(" /\ CharAt(s, p + 1) = "-" /\ CharAt(s, p + 2) \in Digits
    THEN p + 2
    ELSE IF CharAt(s, p) = "(" /\ CharAt(s, p + 1) \in Digits
    THEN p + 1
    ELSE IF CharAt(s, p) = "-" /\ CharAt(s, p + 1) \in Digits
    THEN p + 1
    ELSE IF CharAt(s, p) \in Digits
    THEN p
    ELSE 0

\* Last index of the greedy run [\d,\.]* that follows the digit at d
RECURSIVE RunEnd(_, _)
RunEnd(s, d) == IF CharAt(s, d + 1) \in NumberTail THEN RunEnd(s, d + 1) ELSE d

\* Last index of the match of \(?-?\d[\d,\.]*\)? starting at p; 0 when none
MatchEnd(s, p) ==
    LET d == DigitAt(s, p)
    IN  IF d = 0 THEN 0
        ELSE LET e == RunEnd(s, d)
             IN  IF CharAt(s, e + 1) = ")" THEN e + 1 ELSE e

\* re.findall(r"\(?-?\d[\d,\.]*\)?", s) scanning from p: non-overlapping
\* matches, leftmost first
RECURSIVE FindAll(_, _)
FindAll(s, p) ==
    IF p > Len(s) THEN <<>>
    ELSE LET e == MatchEnd(s, p)
         IN  IF e = 0 THEN FindAll(s, p + 1)
             ELSE <<SubSeq(s, p, e)>> \o FindAll(s, e + 1)

\* a plausible slip: the parentheses removed without the minus sign prefixed
CleanNumber_NoMinus(num) ==
    LET n == Remove(num, ",")
    IN  IF Contains(n, <<"(">>) /\ Contains(n, <<")">>)
        THEN Remove(Remove(n, "("), ")")
        ELSE n

\* the body of the loop over the matches
CleanNumber(num) ==
    LET n == Remove(num, ",")
    IN  IF Contains(n, <<"(">>) /\ Contains(n, <<")">>)
        THEN <<"-">> \o Remove(Remove(n, "("), ")")
        ELSE n

extract_numbers(ln) ==
    LET found == FindAll(ln, 1)
    IN  [i \in 1..Len(found) |-> CleanNumber(found[i])]

(***************************************************************************)
(* SpecNumbers: a call of extract_numbers                                  *)
(***************************************************************************)
MaxLen == 5

NumberChars == {"(", ")", "-", "1", "2", ",", ".", "x"}

NumberLines == UNION {[1..k -> NumberChars] : k \in 0..MaxLen}

InitNumbers ==
    /\ pc = "call"
    /\ line \in NumberLines
    /\ label = "none"
    /\ numbers = <<>>
    /\ Idle

CallExtractNumbers ==
    /\ pc = "call"
    /\ numbers' = extract_numbers(line)
    /\ pc' = "returned"
    /\ UNCHANGED <<file, text, lines, data, df, response, line, label>>

NextNumbers == CallExtractNumbers

SpecNumbers == InitNumbers /\ [][NextNumbers]_vars

\* A number as the parser reads it: an optional minus, a digit, then digits,
\* commas and periods
IsNumber(s) ==
    LET body == IF s # <<>> /\ Head(s) = "-" THEN Tail(s) ELSE s
    IN  /\ body # <<>>
        /\ Head(body) \in Digits
        /\ \A i \in 1..Len(body) : body[i] \in NumberTail

\* C5: wherever the line has "(" number ")", the tokens are those of the text
\* before it, then a minus sign followed by the number with its commas
\* removed (no parenthesis left), then those of the text after it.
C5_ParenthesizedNegated ==
    pc = "returned" =>
        \A a \in 1..Len(line) : \A b \in (a + 1)..Len(line) :
            (/\ line[a] = "(" /\ line[b] = ")"
             /\ IsNumber(SubSeq(line, a + 1, b - 1)))
            => numbers = extract_numbers(SubSeq(line, 1, a - 1))
                         \o << <<"-">> \o Remove(SubSeq(line, a + 1, b - 1), ",") >>
                         \o extract_numbers(SubSeq(line, b + 1, Len(line)))

\* "(1,2)" has been parsed to "-12", and "(-1)" to a minus sign before "-1"
C5_Witness ==
    /\ pc = "returned"
    /\ \/ /\ line = <<"(","1",",","2",")">>
          /\ numbers = << <<"-","1","2">> >>
       \/ /\ line = <<"(","-","1",")">>
          /\ numbers = << <<"-","-","1">> >>

\* An optional single leading minus sign, then digits with at most one
\* decimal point; no comma, no parenthesis
IsSignedDecimal(tok) ==
    LET body == IF tok # <<>> /\ Head(tok) = "-" THEN Tail(tok) ELSE tok
    IN  /\ body # <<>>
        /\ Head(body) \in Digits
        /\ \A i \in 1..Len(body) : body[i] \in Digits \cup {"."}
        /\ Cardinality({i \in 1..Len(body) : body[i] = "."}) <= 1

DigitsOf(s) == SelectSeq(s, LAMBDA c : c \in Digits)

\* C9: every token is a signed decimal string, and the tokens keep the
\* left-to-right order of the line (their digits are the line's digits, in
\* order).
C9_TokensAreSignedDecimals ==
    pc = "returned" =>
        /\ \A i \in 1..Len(numbers) : IsSignedDecimal(numbers[i])
        /\ DigitsOf(Concat(numbers)) = DigitsOf(line)

\* the order half of C9 alone
C9_OrderOnly ==
    pc = "returned" => DigitsOf(Concat(numbers)) = DigitsOf(line)


(***************************************************************************)
(* SpecLabel: a call of normalize_label                                    *)
(***************************************************************************)
InitLabel ==
    /\ pc = "call"
    /\ line \in LabelLines
    /\ label = "none"
    /\ numbers = <<>>
    /\ Idle

CallNormalizeLabel ==
    /\ pc = "call"
    /\ label' = normalize_label(line)
    /\ pc' = "returned"
    /\ UNCHANGED <<file, text, lines, data, df, response, line, numbers>>

NextLabel == CallNormalizeLabel

SpecLabel == InitLabel /\ [][NextLabel]_vars

\* The ordered rule table of the Label Normalizer: phrases and label per rule
Rules ==
    << [phrases |-> {NET_SALES}, label |-> "Revenue"],
       [phrases |-> {COST_OF_SALES}, label |-> "Cost of Revenue"],
       [phrases |-> {GROSS_MARGIN, GROSS_PROFIT}, label |-> "Gross Profit"],
       [phrases |-> {OPERATING_INCOME}, label |-> "Operating Income"],
       [phrases |-> {OPERATING_EXPENSES}, label |-> "Operating Expenses"],
       [phrases |-> {NET_INCOME, NET_PROFIT, NET_EARNINGS}, label |-> "Net Income"],
       [phrases |-> {EARNINGS_PER_SHARE, EPS}, label |-> "EPS"] >>

RuleMatches(r, ln) == \E p \in Rules[r].phrases : Contains(Lower(ln), p)

MatchingRules(ln) == {r \in 1..Len(Rules) : RuleMatches(r, ln)}

\* C1: the returned label is that of the lowest-numbered rule one of whose
\* phrases occurs in the lowercased line, and the sentinel when none occurs.
C1_FirstMatchWins ==
    pc = "returned" =>
        LET m == MatchingRules(line)
        IN  /\ m = {} => label = "UNKNOWN"
            /\ m # {} => \E r \in m : /\ \A q \in m : r <= q
                                      /\ label = Rules[r].label

\* a line with both "net sales" and "net income" has been resolved to Revenue
C1_Witness ==
    /\ pc = "returned"
    /\ {1, 6} \subseteq MatchingRules(line)
    /\ Contains(Lower(line), NET_INCOME)
    /\ label = "Revenue"

(***************************************************************************)
(* extract_text_from_pdf                                                   *)
(***************************************************************************)
PageLimit == 40

Min(a, b) == IF a <= b THEN a ELSE b

\* a plausible slip: every page read
PageSlice_NoCap(pages) == pages

\* pdf.pages[:40]
PageSlice(pages) == SubSeq(pages, 1, Min(Len(pages), PageLimit))

\* the loop body; a page whose extract_text() is None or "" is the empty
\* sequence, falsy either way
AppendPage(txt, page_text) ==
    IF page_text # <<>> THEN txt \o page_text \o <<"\n">> ELSE txt

RECURSIVE ExtractPages(_, _)
ExtractPages(txt, pages) ==
    IF pages = <<>> THEN txt
    ELSE ExtractPages(AppendPage(txt, Head(pages)), Tail(pages))

extract_text_from_pdf(file_bytes) == ExtractPages(<<>>, PageSlice(file_bytes.pages))

(***************************************************************************)
(* get_income_statement_lines                                              *)
(***************************************************************************)
\* a plausible slip: "net profit" listed among the terms as well
financial_terms_WithNetProfit ==
    << <<"r","e","v","e","n","u","e">>,
       <<"s","a","l","e","s">>,
       <<"c","o","s","t">>,
       <<"g","r","o","s","s">>,
       <<"o","p","e","r","a","t","i","n","g"," ","i","n","c","o","m","e">>,
       <<"o","p","e","r","a","t","i","n","g"," ","e","x","p","e","n","s","e","s">>,
       <<"n","e","t"," ","i","n","c","o","m","e">>,
       <<"n","e","t"," ","p","r","o","f","i","t">>,
       <<"e","a","r","n","i","n","g","s"," ","p","e","r"," ","s","h","a","r","e">>,
       <<"e","p","s">> >>

\* the keyword list
financial_terms ==
    << <<"r","e","v","e","n","u","e">>,
       <<"s","a","l","e","s">>,
       <<"c","o","s","t">>,
       <<"g","r","o","s","s">>,
       <<"o","p","e","r","a","t","i","n","g"," ","i","n","c","o","m","e">>,
       <<"o","p","e","r","a","t","i","n","g"," ","e","x","p","e","n","s","e","s">>,
       <<"n","e","t"," ","i","n","c","o","m","e">>,
       <<"e","a","r","n","i","n","g","s"," ","p","e","r"," ","s","h","a","r","e">>,
       <<"e","p","s">> >>

\* a plausible slip: `or` for `and`
KeepLine_Or(clean) ==
    \/ HasDigit(clean)
    \/ \E t \in 1..Len(financial_terms) : Contains(Lower(clean), financial_terms[t])

\* re.search(r"\d", clean) and any(term in lower for term in financial_terms)
KeepLine(clean) ==
    /\ HasDigit(clean)
    /\ \E t \in 1..Len(financial_terms) : Contains(Lower(clean), financial_terms[t])

RECURSIVE FilterLines(_)
FilterLines(ls) ==
    IF ls = <<>> THEN <<>>
    ELSE LET clean == Strip(Head(ls))
         IN  (IF KeepLine(clean) THEN <<clean>> ELSE <<>>) \o FilterLines(Tail(ls))

get_income_statement_lines(txt) == FilterLines(Split(txt, "\n"))

(***************************************************************************)
(* extract_financials: the endpoint                                        *)
(***************************************************************************)
COMMA_SPACE == <<",", " ">>

NO_DATA_MESSAGE ==
    <<"N","o"," ","i","n","c","o","m","e"," ","s","t","a","t","e","m","e","n","t",
      " ","d","a","t","a"," ","d","e","t","e","c","t","e","d"," ","i","n"," ",
      "f","i","r","s","t"," ","4","0"," ","p","a","g","e","s",".">>

\* a plausible slip: the label test left out
KeepRow_NumbersOnly(lbl, nums) == nums # <<>>

\* label != "UNKNOWN" and numbers
KeepRow(lbl, nums) == lbl # "UNKNOWN" /\ nums # <<>>

Row(ln) ==
    [Raw_Line |-> ln,
     Standard_Label |-> normalize_label(ln),
     Values_Found |-> Join(COMMA_SPACE, extract_numbers(ln))]

\* a plausible slip: rows inserted at the front of the list
RECURSIVE BuildRows_Prepend(_, _)
BuildRows_Prepend(rows, ls) ==
    IF ls = <<>> THEN rows
    ELSE BuildRows_Prepend(
             IF KeepRow(normalize_label(Head(ls)), extract_numbers(Head(ls)))
             THEN <<Row(Head(ls))>> \o rows ELSE rows,
             Tail(ls))

\* the loop over the candidate lines, appending to data
RECURSIVE BuildRows(_, _)
BuildRows(rows, ls) ==
    IF ls = <<>> THEN rows
    ELSE BuildRows(
             IF KeepRow(normalize_label(Head(ls)), extract_numbers(Head(ls)))
             THEN Append(rows, Row(Head(ls))) ELSE rows,
             Tail(ls))

InfoRow ==
    [Raw_Line |-> NO_DATA_MESSAGE, Standard_Label |-> "INFO", Values_Found |-> <<>>]

\* a plausible slip: the placeholder added whatever was found
Frame_AlwaysInfo(rows) == rows \o <<InfoRow>>

\* pd.DataFrame(data), replaced by the placeholder frame when empty
Frame(rows) == IF rows = <<>> THEN <<InfoRow>> ELSE rows

\* The uploaded documents: either not a PDF, or a PDF given by its pages'
\* extract_text() results.
MaxExtraPages == 1

PageTexts ==
    { <<>>,
      <<"N","e","t"," ","s","a","l","e","s"," ","5">>,
      <<" ","R","e","v","e","n","u","e"," ","7"," ","\n",
        "N","e","t"," ","p","r","o","f","i","t"," ","3">>,
      <<"E","P","S"," ","(","1",")","\n","N","e","t"," ","s","a","l","e","s"," ","5">>,
      <<"T","o","t","a","l">>,
      <<"n","e","t"," ","p","r","o","f","i","t"," ","o","n"," ",
        "s","a","l","e","s"," ","2",","," ","3">>,
      <<"C","o","s","t"," ","o","f"," ","s","a","l","e","s"," ",
        "(","1",",","2","3","4",")">> }

FillerTexts == { <<>>, <<"x">> }

PageCounts == (0..MaxExtraPages) \cup {PageLimit + k : k \in (-1)..MaxExtraPages}

\* a document of n pages: `first` on page 1, `last` on page PageLimit,
\* `beyond` on every later page, `filler` elsewhere
LongDoc(n, first, last, beyond, filler) ==
    [j \in 1..n |-> IF j = 1 THEN first
                    ELSE IF j = PageLimit THEN last
                    ELSE IF j > PageLimit THEN beyond
                    ELSE filler]

LongDocs ==
    {LongDoc(n, a, b, c, f) :
        n \in PageCounts, a \in PageTexts, b \in PageTexts,
        c \in PageTexts, f \in FillerTexts}

TextWords ==
    { <<" ","R","e","v","e","n","u","e"," ","1","\t">>,
      <<"s","a","l","e","s">>,
      <<"C","O","S","T">>,
      <<"g","r","o","s","s">>,
      <<"o","p","e","r","a","t","i","n","g"," ","i","n","c","o","m","e">>,
      <<"O","p","e","r","a","t","i","n","g"," ","E","x","p","e","n","s","e","s"," ","2">>,
      <<"n","e","t"," ","i","n","c","o","m","e">>,
      <<"e","a","r","n","i","n","g","s"," ","p","e","r"," ","s","h","a","r","e">>,
      <<"E","P","S">>,
      <<" ">>,
      <<"\n","7","\n">>,
      <<"\n">>,
      <<"7">>,
      <<"x">> }

Texts == {Concat(ws) : ws \in WordSeqs(TextWords, MaxWords)}

\* the words of the one-page documents
PageWords ==
    { <<" ","R","e","v","e","n","u","e"," ","1","\t">>,
      <<"s","a","l","e","s">>,
      <<"O","p","e","r","a","t","i","n","g"," ","E","x","p","e","n","s","e","s"," ","2">>,
      <<"n","e","t"," ","i","n","c","o","m","e">>,
      <<"N","e","t"," ","p","r","o","f","i","t">>,
      <<"E","P","S">>,
      <<"(","3",")">>,
      <<" ">>,
      <<"\n">>,
      <<"x">> }

OnePageDocs == {<<Concat(ws)>> : ws \in WordSeqs(PageWords, MaxWords)}

Files ==
    {[valid |-> FALSE, pages |-> <<>>]}
    \cup {[valid |-> TRUE, pages |-> d] : d \in LongDocs \cup OnePageDocs}

Init ==
    /\ pc = "start"
    /\ file \in Files
    /\ text = <<>> /\ lines = <<>> /\ data = <<>> /\ df = <<>>
    /\ response = NoResponse
    /\ line = <<>> /\ label = "none" /\ numbers = <<>>

\* pdfplumber.open raises on bytes that are no PDF; nothing in the handler
\* catches it, so the framework answers 500 Internal Server Error
OpenFails ==
    /\ pc = "start"
    /\ ~file.valid
    /\ pc' = "failed"
    /\ response' = [status |-> 500, raised |-> "exception of pdfplumber.open"]
    /\ UNCHANGED <<file, text, lines, data, df, line, label, numbers>>

\* text = extract_text_from_pdf(contents)
ExtractText ==
    /\ pc = "start"
    /\ file.valid
    /\ text' = extract_text_from_pdf(file)
    /\ pc' = "text"
    /\ UNCHANGED <<file, lines, data, df, response, line, label, numbers>>

\* lines = get_income_statement_lines(text)
GetLines ==
    /\ pc = "text"
    /\ lines' = get_income_statement_lines(text)
    /\ pc' = "lines"
    /\ UNCHANGED <<file, text, data, df, response, line, label, numbers>>

\* the loop building data
CollectRows ==
    /\ pc = "lines"
    /\ data' = BuildRows(<<>>, lines)
    /\ pc' = "rows"
    /\ UNCHANGED <<file, text, lines, df, response, line, label, numbers>>

\* df = pd.DataFrame(data), with the fallback
BuildFrame ==
    /\ pc = "rows"
    /\ df' = Frame(data)
    /\ pc' = "frame"
    /\ UNCHANGED <<file, text, lines, data, response, line, label, numbers>>

\* the CSV of df is streamed back
Respond ==
    /\ pc = "frame"
    /\ response' = [status |-> 200, raised |-> "none"]
    /\ pc' = "done"
    /\ UNCHANGED <<file, text, lines, data, df, line, label, numbers>>

Next ==
    \/ OpenFails
    \/ ExtractText
    \/ GetLines
    \/ CollectRows
    \/ BuildFrame
    \/ Respond

Spec == Init /\ [][Next]_vars

(***************************************************************************)
(* SpecLines: a call of get_income_statement_lines                         *)
(***************************************************************************)
InitLines ==
    /\ pc = "call"
    /\ text \in Texts
    /\ file = NoFile /\ lines = <<>> /\ data = <<>> /\ df = <<>>
    /\ response = NoResponse
    /\ line = <<>> /\ label = "none" /\ numbers = <<>>

CallGetLines ==
    /\ pc = "call"
    /\ lines' = get_income_statement_lines(text)
    /\ pc' = "returned"
    /\ UNCHANGED <<file, text, data, df, response, line, label, numbers>>

NextLines == CallGetLines

SpecLines == InitLines /\ [][NextLines]_vars

(***************************************************************************)
(* What the claims speak of                                                *)
(***************************************************************************)
Range(f) == {f[i] : i \in DOMAIN f}

Count(f, x) == Cardinality({i \in DOMAIN f : f[i] = x})

\* the lines of a text, each trimmed
TrimmedLines(txt) ==
    LET ls == Split(txt, "\n") IN [i \in 1..Len(ls) |-> Strip(ls[i])]

FilterKeywords ==
    { <<"r","e","v","e","n","u","e">>, <<"s","a","l","e","s">>,
      <<"c","o","s","t">>, <<"g","r","o","s","s">>,
      OPERATING_INCOME, OPERATING_EXPENSES, NET_INCOME, EARNINGS_PER_SHARE, EPS }

HasKeyword(ln) == \E k \in FilterKeywords : Contains(Lower(ln), k)

HasLabelPhrase(ln) == MatchingRules(ln) # {}

IsBlank(ln) == \A i \in 1..Len(ln) : ln[i] \in Whitespace

CanonicalLabels ==
    {"Revenue", "Cost of Revenue", "Gross Profit", "Operating Income",
     "Operating Expenses", "Net Income", "EPS"}

\* a candidate line with a recognized label and a value
Qualifies(ln) ==
    /\ HasDigit(ln) /\ HasKeyword(ln)
    /\ normalize_label(ln) # "UNKNOWN"
    /\ extract_numbers(ln) # <<>>

RawLines(rows) == [i \in 1..Len(rows) |-> rows[i].Raw_Line]

\* s is t with some elements left out, the order kept
RECURSIVE IsSubsequence(_, _)
IsSubsequence(s, t) ==
    IF s = <<>> THEN TRUE
    ELSE IF t = <<>> THEN FALSE
    ELSE IF Head(s) = Head(t) THEN IsSubsequence(Tail(s), Tail(t))
    ELSE IsSubsequence(s, Tail(t))

\* C6: the result is exactly the trimmed lines with a digit and a keyword, in
\* order; lines without a digit, without a keyword, or blank are left out, and
\* no returned line starts or ends with whitespace.
C6_FilterExact ==
    pc = "returned" =>
        /\ lines = SelectSeq(TrimmedLines(text),
                             LAMBDA l : HasDigit(l) /\ HasKeyword(l))
        /\ \A i \in 1..Len(lines) :
              /\ ~IsBlank(lines[i])
              /\ HasDigit(lines[i]) /\ HasKeyword(lines[i])
              /\ Head(lines[i]) \notin Whitespace
              /\ lines[i][Len(lines[i])] \notin Whitespace

\* a text with a padded qualifying line, a line without a digit and a line
\* without a keyword has been filtered
C6_Witness ==
    /\ pc = "returned"
    /\ Len(lines) >= 1
    /\ \E l \in Range(Split(text, "\n")) : Strip(l) # l /\ Strip(l) \in Range(lines)
    /\ \E l \in Range(TrimmedLines(text)) : HasKeyword(l) /\ ~HasDigit(l)
    /\ \E l \in Range(TrimmedLines(text)) : HasDigit(l) /\ ~HasKeyword(l)

\* the rows that are not the placeholder
IsInfo(row) == row.Standard_Label = "INFO"

\* C2: every row other than the INFO placeholder has a canonical label and
\* the values of a non-empty sequence of tokens.
C2_RowsLabelledWithValues ==
    \A row \in Range(data) \cup Range(df) :
        ~IsInfo(row) =>
            /\ row.Standard_Label \in CanonicalLabels
            /\ extract_numbers(row.Raw_Line) # <<>>
            /\ row.Values_Found = Join(COMMA_SPACE, extract_numbers(row.Raw_Line))
            /\ row.Values_Found # <<>>

\* the response went out with rows, from a document that also had a candidate
\* line without a recognized label
C2_Witness ==
    /\ pc = "done"
    /\ \E row \in Range(df) : ~IsInfo(row)
    /\ \E l \in Range(lines) : normalize_label(l) = "UNKNOWN"

\* C3: the raw lines of the rows are a subsequence of the trimmed lines of
\* the text, and a qualifying line occurring k times gives k rows.
C3_RowsInLineOrder ==
    pc \in {"rows", "frame", "done"} =>
        /\ IsSubsequence(RawLines(data), TrimmedLines(text))
        /\ \A l \in Range(TrimmedLines(text)) :
              Qualifies(l) => Count(RawLines(data), l) = Count(TrimmedLines(text), l)
        /\ df # <<InfoRow>> => df \in {<<>>, data}

\* rows of two different lines, one of them twice, with a skipped line between
C3_Witness ==
    /\ pc = "done"
    /\ \E l \in Range(RawLines(data)) : Count(RawLines(data), l) >= 2
    /\ Cardinality(Range(RawLines(data))) >= 2
    /\ Len(TrimmedLines(text)) > Len(data)

\* C4: with no qualifying line the result is exactly the one placeholder row;
\* with a qualifying line it has no INFO row; it is never empty.
C4_PlaceholderIffNothingQualifies ==
    pc \in {"frame", "done"} =>
        /\ df # <<>>
        /\ (\A l \in Range(TrimmedLines(text)) : ~Qualifies(l)) =>
              df = << [Raw_Line |->
                         <<"N","o"," ","i","n","c","o","m","e"," ",
                           "s","t","a","t","e","m","e","n","t"," ","d","a","t","a"," ",
                           "d","e","t","e","c","t","e","d"," ","i","n"," ",
                           "f","i","r","s","t"," ","4","0"," ","p","a","g","e","s",".">>,
                       Standard_Label |-> "INFO",
                       Values_Found |-> <<>>] >>
        /\ (\E l \in Range(TrimmedLines(text)) : Qualifies(l)) =>
              \A row \in Range(df) : ~IsInfo(row)

\* the placeholder went out for a document with candidate lines, none labelled
C4_Witness ==
    /\ pc = "done"
    /\ lines # <<>>
    /\ data = <<>>
    /\ df = <<InfoRow>>

\* the response went out with rows and no placeholder
C4_WitnessRows ==
    /\ pc = "done"
    /\ data # <<>>
    /\ df = data

\* C7: bytes that are no valid document make the extraction fail with
\* MalformedInputError, answered as a 4xx failure, with no CSV result.
C7_MalformedInputIsClientError ==
    pc = "failed" =>
        /\ response.raised = "MalformedInputError"
        /\ response.status \in 400..499
        /\ df = <<>>

\* the text of the first PageLimit pages, each non-empty one with a newline
ExpectedText(pages) ==
    Concat([j \in 1..Min(Len(pages), PageLimit) |->
                IF pages[j] = <<>> THEN <<>> ELSE pages[j] \o <<"\n">>])

\* C8: the text is the concatenation, in page order, of the first 40 pages
\* that have text, each followed by one newline; every row's raw line is a
\* trimmed line of one of those pages.
C8_FirstFortyPages ==
    pc \in {"text", "lines", "rows", "frame", "done"} =>
        /\ text = ExpectedText(file.pages)
        /\ \A row \in Range(data) :
              \E j \in 1..Min(Len(file.pages), PageLimit) :
                  row.Raw_Line \in Range(TrimmedLines(file.pages[j]))

\* a document longer than 40 pages, a qualifying line only beyond page 40, a
\* page without text among the first 40, and rows from page 1 and page 40
C8_Witness ==
    /\ pc = "done"
    /\ Len(file.pages) > PageLimit
    /\ \E l \in Range(TrimmedLines(file.pages[PageLimit + 1])) :
          Qualifies(l) /\ l \notin Range(RawLines(data))
    /\ \E j \in 1..PageLimit : file.pages[j] = <<>>
    /\ file.pages[1] # <<>> /\ file.pages[PageLimit] # <<>>
    /\ file.pages[1] # file.pages[PageLimit]
    /\ Len(data) >= 2

\* C10: the rows are exactly the trimmed lines with a digit, a filter keyword
\* and a label phrase; every candidate line has a token.
C10_RowIffDigitKeywordPhrase ==
    /\ pc \in {"rows", "frame", "done"} =>
          RawLines(data) = SelectSeq(TrimmedLines(text),
              LAMBDA l : HasDigit(l) /\ HasKeyword(l) /\ HasLabelPhrase(l))
    /\ pc \in {"lines", "rows", "frame", "done"} =>
          \A i \in 1..Len(lines) : extract_numbers(lines[i]) # <<>>

\* a document with a candidate line of an uncovered keyword, a label phrase
\* without a filter keyword, and a row whose label phrase is no filter keyword
\* but which has another keyword
C10_Witness ==
    /\ pc = "done"
    /\ data # <<>>
    /\ \E l \in Range(TrimmedLines(text)) :
          HasDigit(l) /\ HasKeyword(l) /\ ~HasLabelPhrase(l)
    /\ \E l \in Range(TrimmedLines(text)) :
          HasDigit(l) /\ HasLabelPhrase(l) /\ ~HasKeyword(l)
    /\ \E row \in Range(data) :
          /\ Contains(Lower(row.Raw_Line), NET_PROFIT)
          /\ row.Standard_Label = "Net Income"

====
